---- MODULE Spec2Model ----
(***************************************************************************)
(* Model of the arb-program on-chain arbitrage program:                    *)
(*   lib.rs / processor.rs  entry point, account decoding                  *)
(*   partial_state.rs       fixed-offset decoding of holdings and mints    *)
(*   swap.rs                constant-product quote, computed in f32        *)
(*   arb.rs                 pairwise scan, direction choice (f64), the two *)
(*                          external calls                                 *)
(* Floating point is modelled bit-exactly (round-to-nearest-even on a      *)
(* significand of the type's precision) over arbitrary-precision naturals. *)
(***************************************************************************)
EXTENDS Integers, Sequences, FiniteSets, TLC

(***************************************************************************)
(* Arbitrary-precision naturals: little-endian sequences of limbs in       *)
(* 0..Base-1 without leading zero limbs; <<>> is zero.  (TLC integers are  *)
(* 32 bits wide; a product of two f32 significands needs 48.)              *)
(***************************************************************************)
Base == 2^15

RECURSIVE BNFromInt(_)
BNFromInt(n) == IF n = 0 THEN <<>> ELSE <<n % Base>> \o BNFromInt(n \div Base)

RECURSIVE BNToInt(_)
BNToInt(a) == IF a = <<>> THEN 0 ELSE Head(a) + Base * BNToInt(Tail(a))

RECURSIVE BNNorm(_)
BNNorm(a) ==
    IF a = <<>> THEN a
    ELSE IF a[Len(a)] = 0 THEN BNNorm(SubSeq(a, 1, Len(a) - 1)) ELSE a

Limb(a, k) == IF k <= Len(a) THEN a[k] ELSE 0

Zeros(n) == [x \in 1..n |-> 0]

RECURSIVE BNAddC(_, _, _, _)
BNAddC(a, b, k, c) ==
    IF k > Len(a) /\ k > Len(b)
    THEN (IF c = 0 THEN <<>> ELSE <<c>>)
    ELSE LET s == Limb(a, k) + Limb(b, k) + c
         IN  <<s % Base>> \o BNAddC(a, b, k + 1, s \div Base)

BNAdd(a, b) == BNAddC(a, b, 1, 0)

RECURSIVE BNSubB(_, _, _, _)
BNSubB(a, b, k, br) ==
    IF k > Len(a) THEN <<>>
    ELSE LET s == Limb(a, k) - Limb(b, k) - br
         IN  IF s < 0 THEN <<s + Base>> \o BNSubB(a, b, k + 1, 1)
                      ELSE <<s>> \o BNSubB(a, b, k + 1, 0)

\* a - b for a >= b
BNSub(a, b) == BNNorm(BNSubB(a, b, 1, 0))

RECURSIVE BNCmpAt(_, _, _)
BNCmpAt(a, b, k) ==
    IF k = 0 THEN 0
    ELSE IF a[k] > b[k] THEN 1
    ELSE IF a[k] < b[k] THEN -1
    ELSE BNCmpAt(a, b, k - 1)

\* -1, 0, 1 as a < b, a = b, a > b
BNCmp(a, b) ==
    IF Len(a) > Len(b) THEN 1
    ELSE IF Len(a) < Len(b) THEN -1
    ELSE BNCmpAt(a, b, Len(a))

RECURSIVE BNMulLimbC(_, _, _, _)
BNMulLimbC(a, d, k, c) ==
    IF k > Len(a)
    THEN (IF c = 0 THEN <<>> ELSE <<c>>)
    ELSE LET s == a[k] * d + c
         IN  <<s % Base>> \o BNMulLimbC(a, d, k + 1, s \div Base)

\* a * d for a limb d
BNMulLimb(a, d) == IF d = 0 \/ a = <<>> THEN <<>> ELSE BNMulLimbC(a, d, 1, 0)

RECURSIVE BNMulAt(_, _, _)
BNMulAt(a, b, k) ==
    IF k > Len(b) THEN <<>>
    ELSE BNAdd(IF b[k] = 0 THEN <<>> ELSE Zeros(k - 1) \o BNMulLimb(a, b[k]),
               BNMulAt(a, b, k + 1))

BNMul(a, b) == IF a = <<>> THEN <<>> ELSE BNMulAt(a, b, 1)

RECURSIVE IntBitLen(_)
IntBitLen(n) == IF n = 0 THEN 0 ELSE 1 + IntBitLen(n \div 2)

BNBitLen(a) == IF a = <<>> THEN 0 ELSE 15 * (Len(a) - 1) + IntBitLen(a[Len(a)])

\* a * 2^s
BNShl(a, s) ==
    IF a = <<>> THEN <<>> ELSE Zeros(s \div 15) \o BNMulLimb(a, 2^(s % 15))

\* floor(a / 2^s)
BNShr(a, s) ==
    LET w == s \div 15
        r == s % 15
        n == Len(a)
    IN  IF w >= n THEN <<>>
        ELSE BNNorm([k \in 1..(n - w) |->
                        (a[k + w] \div 2^r) + (Limb(a, k + w + 1) % 2^r) * 2^(15 - r)])

\* bit i (from 0) of a
BNBit(a, i) == (Limb(a, i \div 15 + 1) \div 2^(i % 15)) % 2

\* a mod 2^s # 0
BNLowNonZero(a, s) ==
    \E k \in 1..Len(a) :
        \/ k <= s \div 15 /\ a[k] # 0
        \/ k = s \div 15 + 1 /\ a[k] % 2^(s % 15) # 0

BNIsOdd(a) == a # <<>> /\ a[1] % 2 = 1

RECURSIVE IntTrailingZeros(_)
IntTrailingZeros(x) == IF x % 2 = 1 THEN 0 ELSE 1 + IntTrailingZeros(x \div 2)

RECURSIVE BNTrailingZerosAt(_, _)
BNTrailingZerosAt(a, k) ==
    IF a[k] = 0 THEN 15 + BNTrailingZerosAt(a, k + 1) ELSE IntTrailingZeros(a[k])

\* number of trailing zero bits of a # 0
BNTrailingZeros(a) == BNTrailingZerosAt(a, 1)

\* 15 steps of binary long division of (rem * 2^15 + limb) by d
RECURSIVE DivBits(_, _, _, _, _)
DivBits(rem, q, limb, nb, d) ==
    IF nb = 0 THEN <<q, rem>>
    ELSE LET x == 2 * rem + ((limb \div 2^(nb - 1)) % 2)
         IN  IF x >= d THEN DivBits(x - d, 2 * q + 1, limb, nb - 1, d)
                       ELSE DivBits(x, 2 * q, limb, nb - 1, d)

RECURSIVE BNDivAt(_, _, _, _)
BNDivAt(a, k, rem, d) ==
    IF k = 0 THEN [q |-> <<>>, r |-> rem]
    ELSE LET s == DivBits(rem, 0, a[k], 15, d)
             rest == BNDivAt(a, k - 1, s[2], d)
         IN  [q |-> rest.q \o <<s[1]>>, r |-> rest.r]

\* quotient and remainder of a by an integer 0 < d < 2^30
BNDivInt(a, d) ==
    LET x == BNDivAt(a, Len(a), 0, d) IN [q |-> BNNorm(x.q), r |-> x.r]

(***************************************************************************)
(* IEEE-754 binary floating point, non-negative values.  A finite value is *)
(* m * 2^e with m odd (or zero); formats differ in precision and range.    *)
(* Subnormal results are outside the ranges the model draws inputs from    *)
(* and are reported as the kind "sub".                                     *)
(***************************************************************************)
F32 == [prec |-> 24, emax |-> 128, emin |-> -126]
F64 == [prec |-> 53, emax |-> 1024, emin |-> -1022]

NaN == [k |-> "nan", m |-> <<>>, e |-> 0]
Inf == [k |-> "inf", m |-> <<>>, e |-> 0]
FZero == [k |-> "fin", m |-> <<>>, e |-> 0]

IsZero(x) == x.k = "fin" /\ x.m = <<>>

\* the value n * 2^e, exactly representable, in canonical form
Canon(fmt, n, e) ==
    IF n = <<>> THEN FZero
    ELSE IF BNBitLen(n) + e > fmt.emax THEN Inf
    ELSE IF BNBitLen(n) + e - 1 < fmt.emin THEN [k |-> "sub", m |-> <<>>, e |-> 0]
    ELSE LET t == BNTrailingZeros(n)
         IN  [k |-> "fin", m |-> BNShr(n, t), e |-> e + t]

\* n * 2^e (plus a nonzero amount below one unit of n when sticky) rounded to
\* nearest, ties to even
Round(fmt, n, e, sticky) ==
    LET len == BNBitLen(n)
    IN  IF len <= fmt.prec THEN Canon(fmt, n, e)
        ELSE LET s == len - fmt.prec
                 kept == BNShr(n, s)
                 up == /\ BNBit(n, s - 1) = 1
                       /\ (sticky \/ BNLowNonZero(n, s - 1) \/ BNIsOdd(kept))
             IN  Canon(fmt, IF up THEN BNAdd(kept, <<1>>) ELSE kept, e + s)

\* integer to float (u64 as f32, u64 as f64)
IntToF(fmt, v) == Round(fmt, BNFromInt(v), 0, FALSE)

Min(a, b) == IF a < b THEN a ELSE b
Max(a, b) == IF a > b THEN a ELSE b

FMul(fmt, x, y) ==
    IF x.k = "nan" \/ y.k = "nan" THEN NaN
    ELSE IF x.k = "inf" \/ y.k = "inf"
         THEN (IF IsZero(x) \/ IsZero(y) THEN NaN ELSE Inf)
    ELSE Round(fmt, BNMul(x.m, y.m), x.e + y.e, FALSE)

FAdd(fmt, x, y) ==
    IF x.k = "nan" \/ y.k = "nan" THEN NaN
    ELSE IF x.k = "inf" \/ y.k = "inf" THEN Inf
    ELSE LET lo == Min(x.e, y.e)
         IN  Round(fmt, BNAdd(BNShl(x.m, x.e - lo), BNShl(y.m, y.e - lo)), lo, FALSE)

\* |x - y|
FAbsDiff(fmt, x, y) ==
    IF x.k = "nan" \/ y.k = "nan" THEN NaN
    ELSE IF x.k = "inf" \/ y.k = "inf"
         THEN (IF x.k = y.k THEN NaN ELSE Inf)
    ELSE LET lo == Min(x.e, y.e)
             a == BNShl(x.m, x.e - lo)
             b == BNShl(y.m, y.e - lo)
         IN  Round(fmt, IF BNCmp(a, b) >= 0 THEN BNSub(a, b) ELSE BNSub(b, a), lo, FALSE)

FDiv(fmt, x, y) ==
    IF x.k = "nan" \/ y.k = "nan" THEN NaN
    ELSE IF x.k = "inf" THEN (IF y.k = "inf" THEN NaN ELSE Inf)
    ELSE IF y.k = "inf" THEN FZero
    ELSE IF IsZero(y) THEN (IF IsZero(x) THEN NaN ELSE Inf)
    ELSE IF IsZero(x) THEN FZero
    ELSE LET k == Max(0, fmt.prec + 2 + BNBitLen(y.m) - BNBitLen(x.m))
             qr == BNDivInt(BNShl(x.m, k), BNToInt(y.m))
         IN  Round(fmt, qr.q, x.e - y.e - k, qr.r # 0)

\* x > y (false when either is NaN)
FGt(x, y) ==
    IF x.k = "nan" \/ y.k = "nan" THEN FALSE
    ELSE IF y.k = "inf" THEN FALSE
    ELSE IF x.k = "inf" THEN TRUE
    ELSE LET lo == Min(x.e, y.e)
         IN  BNCmp(BNShl(x.m, x.e - lo), BNShl(y.m, y.e - lo)) = 1

\* float as u64: truncation toward zero, NaN to 0 (an infinite or larger than
\* u64::MAX operand saturates; no input of the model produces one)
FToU64(x) ==
    IF x.k = "nan" THEN 0
    ELSE IF x.e >= 0 THEN BNToInt(BNShl(x.m, x.e))
    ELSE BNToInt(BNShr(x.m, 0 - x.e))

(***************************************************************************)
(* error.rs: ArbitrageProgramError as u32 inside ProgramError::Custom      *)
(***************************************************************************)
InvalidAccountsList == 0
TokenAccountOwnerNotFound == 1
InvalidSwapNotEnoughLiquidity == 2
NoArbitrage == 3

Custom(code) == [tag |-> "Custom", code |-> code]
NotEnoughAccountKeys == [tag |-> "NotEnoughAccountKeys", code |-> 0]
InvalidInstructionData == [tag |-> "InvalidInstructionData", code |-> 0]
NoError == [tag |-> "None", code |-> 0]

Ok(v) == [ok |-> TRUE, val |-> v, err |-> NoError]
Err(e) == [ok |-> FALSE, val |-> 0, err |-> e]

(***************************************************************************)
(* swap.rs                                                                 *)
(***************************************************************************)
\* f32::powf(10.0, decimals as f32): exact for the decimals of the model
Pow10(decimals) == IntToF(F32, 10^decimals)

convert_to_float(value, decimals) == FDiv(F32, IntToF(F32, value), Pow10(decimals))

convert_from_float(value, decimals) == FToU64(FMul(F32, value, Pow10(decimals)))

determine_swap_receive(pool_receive_balance, receive_decimals, pool_pay_balance, pay_decimals, pay_amount) ==
    LET big_r == convert_to_float(pool_receive_balance, receive_decimals)
        big_p == convert_to_float(pool_pay_balance, pay_decimals)
        p == convert_to_float(pay_amount, pay_decimals)
        bigr_times_p == FMul(F32, big_r, p)
        bigp_plus_p == FAdd(F32, big_p, p)
        r == FDiv(F32, bigr_times_p, bigp_plus_p)
    IN  IF FGt(r, big_r) THEN Err(Custom(InvalidSwapNotEnoughLiquidity))
        ELSE Ok(convert_from_float(r, receive_decimals))

(***************************************************************************)
(* arb.rs: check_for_arbitrage, in f64                                     *)
(***************************************************************************)
\* percent_diff = (r_swap_1 as f64 / r_swap_2 as f64 - 1.0).abs() * 100.0
percent_diff(r_swap_1, r_swap_2) ==
    FMul(F64,
         FAbsDiff(F64, FDiv(F64, IntToF(F64, r_swap_1), IntToF(F64, r_swap_2)),
                  IntToF(F64, 1)),
         IntToF(F64, 100))

\* percent_diff > threshold, threshold = 100.0 - temperature as f64 (negative
\* for a temperature above 100: every non-NaN percent_diff exceeds it)
ExceedsThreshold(pd, temperature) ==
    IF temperature > 100 THEN pd.k # "nan"
    ELSE FGt(pd, IntToF(F64, 100 - temperature))

\* check_for_arbitrage with the direction taken from the sign of r1 - r2
check_for_arbitrage_signed(r_swap_1, r_swap_2, temperature) ==
    IF ExceedsThreshold(percent_diff(r_swap_1, r_swap_2), temperature)
    THEN (IF r_swap_1 > r_swap_2 THEN "Swap1" ELSE "Swap2")
    ELSE "None"

check_for_arbitrage(r_swap_1, r_swap_2, temperature) ==
    LET pd == percent_diff(r_swap_1, r_swap_2)
    IN  IF ExceedsThreshold(pd, temperature)
        THEN (IF FGt(pd, FZero) THEN "Swap1" ELSE "Swap2")
        ELSE "None"

(***************************************************************************)
(* arb.rs: build_ix_datas                                                  *)
(***************************************************************************)
\* solana_program::hash::hash(b"global:swap").to_bytes()[..8]
swap_ix_hash == <<248, 198, 158, 145, 225, 117, 135, 200>>

\* the low n bytes of v, most significant first
RECURSIVE BytesBE(_, _)
BytesBE(v, n) == IF n = 0 THEN <<>> ELSE Append(BytesBE(v \div 256, n - 1), v % 256)

\* u64::to_le_bytes: the low 8 bytes of v, least significant first
to_le_bytes(v) == [k \in 1..8 |-> BytesBE(v, 8)[9 - k]]

\* u64::to_be_bytes
to_be_bytes(v) == BytesBE(v, 8)

build_ix_datas(buy_amount, sell_amount) ==
    <<swap_ix_hash \o to_be_bytes(buy_amount), swap_ix_hash \o to_be_bytes(sell_amount)>>

(***************************************************************************)
(* Accounts.  An account's data is given by the fields a decoder reads at  *)
(* fixed offsets (mint, owner, amount of a holding; decimals of a mint),   *)
(* its length, and whether the buffer is aligned for bytemuck's cast.      *)
(***************************************************************************)
Key(name, a) == <<name, a>>

Account(key, data_len, aligned, owner, amount, decimals, signer, writable) ==
    [key |-> key, data_len |-> data_len, aligned |-> aligned,
     mint |-> Key("mint", key[2]), owner |-> owner, amount |-> amount,
     decimals |-> decimals, is_signer |-> signer, is_writable |-> writable]

\* util.rs: Pubkey::find_program_address(&[b"liquidity_pool"], program_id).0
PoolAddress(program_id) == Key("liquidity_pool", program_id[2])

\* util.rs: check_pool_address
check_pool_address(program_id, pool) == pool = PoolAddress(program_id)

\* util.rs: ToAccountMeta::to_account_meta
to_account_meta(info) ==
    [pubkey |-> info.key, is_signer |-> info.is_signer, is_writable |-> info.is_writable]

(***************************************************************************)
(* partial_state.rs                                                        *)
(***************************************************************************)
HoldingLen == 72
MintLen == 41

\* PartialTokenAccountState::try_deserialize without the comparison of the
\* owner field with the expected owner
TokenAccount_try_deserialize_any_owner(account_info, owner) ==
    IF account_info.data_len < HoldingLen THEN Err(Custom(InvalidAccountsList))
    ELSE IF ~account_info.aligned THEN Err(Custom(InvalidAccountsList))
    ELSE Ok([info |-> account_info, mint |-> account_info.mint,
             owner |-> account_info.owner, amount |-> account_info.amount])

TokenAccount_try_deserialize(account_info, owner) ==
    IF account_info.data_len < HoldingLen THEN Err(Custom(InvalidAccountsList))
    ELSE IF ~account_info.aligned THEN Err(Custom(InvalidAccountsList))
    ELSE IF account_info.owner # owner THEN Err(Custom(InvalidAccountsList))
    ELSE Ok([info |-> account_info, mint |-> account_info.mint,
             owner |-> account_info.owner, amount |-> account_info.amount])

Mint_try_deserialize(account_info) ==
    IF account_info.data_len < MintLen THEN Err(Custom(InvalidAccountsList))
    ELSE IF ~account_info.aligned THEN Err(Custom(InvalidAccountsList))
    ELSE Ok([info |-> account_info, decimals |-> account_info.decimals])

(***************************************************************************)
(* State                                                                   *)
(***************************************************************************)
VARIABLES
    accounts,               \* the accounts passed to the entry point
    ix,                     \* the instruction: data validity and its four fields
    pc,                     \* position of the invocation
    accounts_iter,          \* number of accounts consumed by next_account_info
    token_accounts_user,    \* decoded lists of process_arbitrage / TryArbitrageArgs
    token_accounts_swap_1,
    token_accounts_swap_2,
    mints,
    i, j,                   \* loop indices of try_arbitrage (from 0)
    scanned,                \* pairs evaluated so far, with their quotes and outcome
    placed,                 \* trades handed to invoke_arbitrage
    invoked,                \* external calls issued, with the callee's answer
    effects,                \* legs the callees have applied
    result,                 \* the invocation's ProgramResult
    sw_in, sw_out           \* arguments and result of a direct call of determine_swap_receive
                            \* or of build_ix_datas

vars == <<accounts, ix, pc, accounts_iter, token_accounts_user, token_accounts_swap_1,
          token_accounts_swap_2, mints, i, j, scanned, placed, invoked, effects,
          result, sw_in, sw_out>>

Running == [tag |-> "Running", code |-> 0]
Pending == Err(Running)
NoCall == [R |-> 0, dR |-> 0, P |-> 0, dP |-> 0, p |-> 0]
Success == [tag |-> "Ok", code |-> 0]

(***************************************************************************)
(* Inputs                                                                  *)
(***************************************************************************)
MaxAssets == 3

\* per asset: the user's holding, the reserves of pool 1 and pool 2, the decimals
Profiles ==
    { [user |-> 100, swap_1 |-> 1000, swap_2 |-> 1000, decimals |-> 0],
      [user |-> 100, swap_1 |-> 1000, swap_2 |-> 500, decimals |-> 0],
      [user |-> 3, swap_1 |-> 13, swap_2 |-> 0, decimals |-> 0],
      [user |-> 1, swap_1 |-> 0, swap_2 |-> 17, decimals |-> 1] }

Temperatures == {0, 90, 101}

\* what the callee of an external call may answer
InvokeResults == {Success, Custom(NoArbitrage), [tag |-> "InsufficientFunds", code |-> 0]}

Faults(n) ==
    {[kind |-> "none", pos |-> 0]}
    \cup {[kind |-> k, pos |-> 0] : k \in {"bad_ix", "few_fixed", "pool1", "pool2"}}
    \cup {[kind |-> k, pos |-> p] : k \in {"missing", "short", "misaligned"}, p \in 1..(4 * n)}
    \cup {[kind |-> "owner", pos |-> p] : p \in 1..(3 * n)}

Plain(name) == Account(Key(name, 0), 0, TRUE, Key("system", 0), 0, 0, FALSE, FALSE)

FixedAccounts(f) ==
    << Account(Key("payer", 0), 0, TRUE, Key("system", 0), 0, 0, TRUE, TRUE),
       Plain("token_program"), Plain("system_program"), Plain("associated_token_program"),
       Plain("swap_program_1"), Plain("swap_program_2"),
       Account(IF f.kind = "pool1" THEN Key("rogue", 1) ELSE PoolAddress(Key("swap_program", 1)),
               0, TRUE, Key("swap_program", 1), 0, 0, FALSE, TRUE),
       Account(IF f.kind = "pool2" THEN Key("rogue", 2) ELSE PoolAddress(Key("swap_program", 2)),
               0, TRUE, Key("swap_program", 2), 0, 0, FALSE, TRUE) >>

HolderKey(list) ==
    IF list = 0 THEN Key("payer", 0) ELSE PoolAddress(Key("swap_program", list))

\* the k-th account after the fixed eight: n user holdings, n holdings of pool 1,
\* n holdings of pool 2, n mints
ListedAccount(n, prof, f, k) ==
    LET list == (k - 1) \div n
        a == ((k - 1) % n) + 1
        hit == f.pos = k
        min_len == IF list < 3 THEN HoldingLen ELSE MintLen
        name == IF list = 0 THEN "user_token" ELSE IF list = 1 THEN "swap_1_token"
                ELSE IF list = 2 THEN "swap_2_token" ELSE "mint"
        amount == IF list = 0 THEN prof[a].user ELSE IF list = 1 THEN prof[a].swap_1
                  ELSE IF list = 2 THEN prof[a].swap_2 ELSE 0
    IN  Account(Key(name, a),
                IF hit /\ f.kind = "short" THEN min_len - 1 ELSE min_len,
                ~(hit /\ f.kind = "misaligned"),
                IF list = 3 THEN Key("token_program", 0)
                ELSE IF hit /\ f.kind = "owner" THEN Key("rogue", 0) ELSE HolderKey(list),
                amount, prof[a].decimals, FALSE, list < 3)

BuildAccounts(n, prof, f) ==
    LET fixed == FixedAccounts(f)
        all == fixed \o [k \in 1..(4 * n) |-> ListedAccount(n, prof, f, k)]
    IN  IF f.kind = "few_fixed" THEN SubSeq(fixed, 1, 7)
        ELSE IF f.kind = "missing" THEN SubSeq(all, 1, 8 + f.pos - 1)
        ELSE all

Idle ==
    /\ token_accounts_user = <<>>
    /\ token_accounts_swap_1 = <<>>
    /\ token_accounts_swap_2 = <<>>
    /\ mints = <<>>
    /\ accounts_iter = 0
    /\ i = 0
    /\ j = 0
    /\ scanned = <<>>
    /\ placed = <<>>
    /\ invoked = <<>>
    /\ effects = <<>>
    /\ result = Running

Init ==
    /\ \E n \in 0..MaxAssets :
         \E prof \in [1..n -> Profiles], f \in Faults(n), t \in Temperatures :
            /\ accounts = BuildAccounts(n, prof, f)
            /\ ix = [valid |-> f.kind # "bad_ix",
                     swap_1_program_id |-> Key("swap_program", 1),
                     swap_2_program_id |-> Key("swap_program", 2),
                     concurrency |-> n, temperature |-> t]
    /\ pc = "start"
    /\ Idle
    /\ sw_in = NoCall
    /\ sw_out = Pending

(***************************************************************************)
(* lib.rs: process; processor.rs: process_arbitrage                        *)
(***************************************************************************)
payer == accounts[1]
token_program == accounts[2]
system_program == accounts[3]
associated_token_program == accounts[4]
swap_1_program == accounts[5]
swap_2_program == accounts[6]
swap_1_pool == accounts[7]
swap_2_pool == accounts[8]

Finish(r) ==
    /\ result' = r
    /\ pc' = "done"

\* instruction decoding, the eight fixed accounts, the two pool address checks
ProcessStart ==
    /\ pc = "start"
    /\ IF ~ix.valid THEN Finish(InvalidInstructionData) /\ UNCHANGED accounts_iter
       ELSE IF Len(accounts) < 8 THEN Finish(NotEnoughAccountKeys) /\ UNCHANGED accounts_iter
       ELSE IF ~check_pool_address(ix.swap_1_program_id, swap_1_pool.key)
            THEN Finish(Custom(InvalidSwapNotEnoughLiquidity)) /\ UNCHANGED accounts_iter
       ELSE IF ~check_pool_address(ix.swap_2_program_id, swap_2_pool.key)
            THEN Finish(Custom(InvalidSwapNotEnoughLiquidity)) /\ UNCHANGED accounts_iter
       ELSE /\ pc' = "decode_user"
            /\ accounts_iter' = 8
            /\ UNCHANGED result
    /\ UNCHANGED <<accounts, ix, token_accounts_user, token_accounts_swap_1,
                   token_accounts_swap_2, mints, i, j, scanned, placed, invoked,
                   effects, sw_in, sw_out>>

\* for _x in 0..concurrency { accts.push(try_deserialize(next_account_info(iter)?, owner)?) }
RECURSIVE DecodeTokenAccounts(_, _, _, _)
DecodeTokenAccounts(accts, iter, count, owner) ==
    IF count = 0 THEN [ok |-> TRUE, vals |-> <<>>, next |-> iter, err |-> NoError]
    ELSE IF iter >= Len(accts)
         THEN [ok |-> FALSE, vals |-> <<>>, next |-> iter, err |-> NotEnoughAccountKeys]
    ELSE LET d == TokenAccount_try_deserialize(accts[iter + 1], owner)
         IN  IF ~d.ok THEN [ok |-> FALSE, vals |-> <<>>, next |-> iter + 1, err |-> d.err]
             ELSE LET rest == DecodeTokenAccounts(accts, iter + 1, count - 1, owner)
                  IN  [rest EXCEPT !.vals = IF rest.ok THEN <<d.val>> \o rest.vals ELSE <<>>]

RECURSIVE DecodeMintAccounts(_, _, _)
DecodeMintAccounts(accts, iter, count) ==
    IF count = 0 THEN [ok |-> TRUE, vals |-> <<>>, next |-> iter, err |-> NoError]
    ELSE IF iter >= Len(accts)
         THEN [ok |-> FALSE, vals |-> <<>>, next |-> iter, err |-> NotEnoughAccountKeys]
    ELSE LET d == Mint_try_deserialize(accts[iter + 1])
         IN  IF ~d.ok THEN [ok |-> FALSE, vals |-> <<>>, next |-> iter + 1, err |-> d.err]
             ELSE LET rest == DecodeMintAccounts(accts, iter + 1, count - 1)
                  IN  [rest EXCEPT !.vals = IF rest.ok THEN <<d.val>> \o rest.vals ELSE <<>>]

DecodeUser ==
    /\ pc = "decode_user"
    /\ LET d == DecodeTokenAccounts(accounts, accounts_iter, ix.concurrency, payer.key)
       IN  /\ accounts_iter' = d.next
           /\ IF d.ok THEN /\ token_accounts_user' = d.vals
                           /\ pc' = "decode_swap_1"
                           /\ UNCHANGED result
              ELSE Finish(d.err) /\ UNCHANGED token_accounts_user
    /\ UNCHANGED <<accounts, ix, token_accounts_swap_1, token_accounts_swap_2, mints,
                   i, j, scanned, placed, invoked, effects, sw_in, sw_out>>

DecodeSwap1 ==
    /\ pc = "decode_swap_1"
    /\ LET d == DecodeTokenAccounts(accounts, accounts_iter, ix.concurrency, swap_1_pool.key)
       IN  /\ accounts_iter' = d.next
           /\ IF d.ok THEN /\ token_accounts_swap_1' = d.vals
                           /\ pc' = "decode_swap_2"
                           /\ UNCHANGED result
              ELSE Finish(d.err) /\ UNCHANGED token_accounts_swap_1
    /\ UNCHANGED <<accounts, ix, token_accounts_user, token_accounts_swap_2, mints,
                   i, j, scanned, placed, invoked, effects, sw_in, sw_out>>

DecodeSwap2 ==
    /\ pc = "decode_swap_2"
    /\ LET d == DecodeTokenAccounts(accounts, accounts_iter, ix.concurrency, swap_2_pool.key)
       IN  /\ accounts_iter' = d.next
           /\ IF d.ok THEN /\ token_accounts_swap_2' = d.vals
                           /\ pc' = "decode_mints"
                           /\ UNCHANGED result
              ELSE Finish(d.err) /\ UNCHANGED token_accounts_swap_2
    /\ UNCHANGED <<accounts, ix, token_accounts_user, token_accounts_swap_1, mints,
                   i, j, scanned, placed, invoked, effects, sw_in, sw_out>>

\* the last decoding loop; on success process_arbitrage calls try_arbitrage
DecodeMints ==
    /\ pc = "decode_mints"
    /\ LET d == DecodeMintAccounts(accounts, accounts_iter, ix.concurrency)
       IN  /\ accounts_iter' = d.next
           /\ IF d.ok THEN /\ mints' = d.vals
                           /\ pc' = "scan_i"
                           /\ UNCHANGED result
              ELSE Finish(d.err) /\ UNCHANGED mints
    /\ UNCHANGED <<accounts, ix, token_accounts_user, token_accounts_swap_1,
                   token_accounts_swap_2, i, j, scanned, placed, invoked, effects,
                   sw_in, sw_out>>

(***************************************************************************)
(* arb.rs: try_arbitrage                                                   *)
(***************************************************************************)
mints_len == Len(mints)

\* Vec::get(k).ok_or_arb_err() succeeds on all four lists
HasAll(k) ==
    /\ k < Len(token_accounts_user)
    /\ k < Len(token_accounts_swap_1)
    /\ k < Len(token_accounts_swap_2)
    /\ k < Len(mints)

Metas(infos) == [k \in 1..Len(infos) |-> to_account_meta(infos[k])]

\* a leg listing the pay asset's three accounts before the receive asset's
LegPayFirst(program, pool, pool_accts, recv, pay, amount) ==
    [program_id |-> program.key,
     accounts |-> << pool, mints[pay + 1].info, pool_accts[pay + 1].info,
                     token_accounts_user[pay + 1].info, mints[recv + 1].info,
                     pool_accts[recv + 1].info, token_accounts_user[recv + 1].info,
                     payer, token_program, system_program, associated_token_program >>,
     amount |-> amount]

\* the (program id, accounts, amount) triple handed to invoke_arbitrage for a
\* swap on `pool` paying asset `pay` and receiving asset `recv` (indices from 0)
Leg(program, pool, pool_accts, recv, pay, amount) ==
    [program_id |-> program.key,
     accounts |-> << pool, mints[recv + 1].info, pool_accts[recv + 1].info,
                     token_accounts_user[recv + 1].info, mints[pay + 1].info,
                     pool_accts[pay + 1].info, token_accounts_user[pay + 1].info,
                     payer, token_program, system_program, associated_token_program >>,
     amount |-> amount]

\* the match on the direction returned by check_for_arbitrage for the pair (a, b)
Trade(dir, a, b, r_swap_1, r_swap_2) ==
    IF dir = "Swap1"
    THEN [buy_on |-> "Swap1", pair |-> <<a, b>>,
          buy |-> Leg(swap_1_program, swap_1_pool, token_accounts_swap_1, b, a,
                      token_accounts_user[a + 1].amount),
          sell |-> Leg(swap_2_program, swap_2_pool, token_accounts_swap_2, a, b, r_swap_1)]
    ELSE [buy_on |-> "Swap2", pair |-> <<a, b>>,
          buy |-> Leg(swap_2_program, swap_2_pool, token_accounts_swap_2, b, a, r_swap_2),
          sell |-> Leg(swap_1_program, swap_1_pool, token_accounts_swap_1, a, b,
                       token_accounts_user[b + 1].amount)]

\* the two quotes of the pair (a, b): pay the user's holding of a, receive b
Quote1(a, b) ==
    determine_swap_receive(token_accounts_swap_1[b + 1].amount, mints[b + 1].decimals,
                           token_accounts_swap_1[a + 1].amount, mints[a + 1].decimals,
                           token_accounts_user[a + 1].amount)

Quote2(a, b) ==
    determine_swap_receive(token_accounts_swap_2[b + 1].amount, mints[b + 1].decimals,
                           token_accounts_swap_2[a + 1].amount, mints[a + 1].decimals,
                           token_accounts_user[a + 1].amount)

\* r_swap_1 == 0 || r_swap_1 > swap_1_j.3 || r_swap_2 == 0 || r_swap_2 > swap_2_j.3
Skipped(b, r_swap_1, r_swap_2) ==
    \/ r_swap_1 = 0
    \/ r_swap_1 > token_accounts_swap_1[b + 1].amount
    \/ r_swap_2 = 0
    \/ r_swap_2 > token_accounts_swap_2[b + 1].amount

\* what one iteration of the inner loop does with the two quotes of a pair
\* whose receive asset is b: `?` on each quote, the skip test, the arbitrage test
Judge(b, q1, q2, temperature) ==
    IF ~q1.ok THEN [outcome |-> "error", err |-> q1.err, r1 |-> 0, r2 |-> 0]
    ELSE IF ~q2.ok THEN [outcome |-> "error", err |-> q2.err, r1 |-> q1.val, r2 |-> 0]
    ELSE IF Skipped(b, q1.val, q2.val)
         THEN [outcome |-> "skip", err |-> NoError, r1 |-> q1.val, r2 |-> q2.val]
    ELSE [outcome |-> check_for_arbitrage(q1.val, q2.val, temperature),
          err |-> NoError, r1 |-> q1.val, r2 |-> q2.val]

Evaluate(a, b, temperature) == Judge(b, Quote1(a, b), Quote2(a, b), temperature)

\* head of the outer loop: for i in 0..mints_len, the four get(i)
ScanOuter ==
    /\ pc = "scan_i"
    /\ IF i >= mints_len THEN Finish(Custom(NoArbitrage)) /\ UNCHANGED j
       ELSE IF ~HasAll(i) THEN Finish(Custom(InvalidAccountsList)) /\ UNCHANGED j
       ELSE /\ j' = i + 1
            /\ pc' = "scan_j"
            /\ UNCHANGED result
    /\ UNCHANGED <<accounts, ix, accounts_iter, token_accounts_user, token_accounts_swap_1,
                   token_accounts_swap_2, mints, i, scanned, placed, invoked, effects,
                   sw_in, sw_out>>

\* the inner loop's body without the `return`: the scan goes on after a trade
ScanPairKeepsScanning(ev) ==
    /\ scanned' = Append(scanned, [pair |-> <<i, j>>, outcome |-> ev.outcome,
                                   r1 |-> ev.r1, r2 |-> ev.r2])
    /\ IF ev.outcome = "error"
       THEN Finish(ev.err) /\ UNCHANGED <<i, j, placed>>
       ELSE /\ j' = j + 1
            /\ placed' = IF ev.outcome \in {"skip", "None"} THEN placed
                         ELSE Append(placed, Trade(ev.outcome, i, j, ev.r1, ev.r2))
            /\ UNCHANGED <<i, pc, result>>

\* the inner loop's body with the skip test ending the scan instead of
\* continuing with the next pair
ScanPairStopsOnSkip(ev) ==
    /\ scanned' = Append(scanned, [pair |-> <<i, j>>, outcome |-> ev.outcome,
                                   r1 |-> ev.r1, r2 |-> ev.r2])
    /\ IF ev.outcome = "error"
       THEN Finish(ev.err) /\ UNCHANGED <<i, j, placed>>
       ELSE IF ev.outcome = "skip"
       THEN Finish(Custom(NoArbitrage)) /\ UNCHANGED <<i, j, placed>>
       ELSE IF ev.outcome = "None"
       THEN /\ j' = j + 1
            /\ UNCHANGED <<i, pc, placed, result>>
       ELSE /\ placed' = Append(placed, Trade(ev.outcome, i, j, ev.r1, ev.r2))
            /\ pc' = "buy"
            /\ UNCHANGED <<i, j, result>>

\* the body of the inner loop once the pair (i, j) has been evaluated
ScanPair(ev) ==
    /\ scanned' = Append(scanned, [pair |-> <<i, j>>, outcome |-> ev.outcome,
                                   r1 |-> ev.r1, r2 |-> ev.r2])
    /\ IF ev.outcome = "error"
       THEN Finish(ev.err) /\ UNCHANGED <<i, j, placed>>
       ELSE IF ev.outcome \in {"skip", "None"}
       THEN /\ j' = j + 1
            /\ UNCHANGED <<i, pc, placed, result>>
       ELSE /\ placed' = Append(placed, Trade(ev.outcome, i, j, ev.r1, ev.r2))
            /\ pc' = "buy"
            /\ UNCHANGED <<i, j, result>>

\* one iteration of the inner loop: for j in (i + 1)..mints_len
ScanInner ==
    /\ pc = "scan_j"
    /\ IF j >= mints_len
       THEN /\ i' = i + 1
            /\ pc' = "scan_i"
            /\ UNCHANGED <<j, scanned, placed, result>>
       ELSE IF ~HasAll(j)
       THEN Finish(Custom(InvalidAccountsList)) /\ UNCHANGED <<i, j, scanned, placed>>
       ELSE ScanPair(Evaluate(i, j, ix.temperature))
    /\ UNCHANGED <<accounts, ix, accounts_iter, token_accounts_user, token_accounts_swap_1,
                   token_accounts_swap_2, mints, invoked, effects, sw_in, sw_out>>

(***************************************************************************)
(* arb.rs: invoke_arbitrage                                                *)
(***************************************************************************)
Instruction(leg, data) ==
    [program_id |-> leg.program_id, data |-> data, accounts |-> Metas(leg.accounts)]

ix_buy == Instruction(placed[Len(placed)].buy,
                      build_ix_datas(placed[Len(placed)].buy.amount,
                                     placed[Len(placed)].sell.amount)[1])

ix_sell == Instruction(placed[Len(placed)].sell,
                       build_ix_datas(placed[Len(placed)].buy.amount,
                                      placed[Len(placed)].sell.amount)[2])

\* invoke_arbitrage without the `?` on the buy leg's call
InvokeBuyIgnoresFailure ==
    /\ pc = "buy"
    /\ \E res \in InvokeResults :
         /\ invoked' = Append(invoked, [leg |-> "buy", ix |-> ix_buy, res |-> res])
         /\ effects' = IF res = Success THEN Append(effects, "buy") ELSE effects
         /\ pc' = "sell"
         /\ UNCHANGED result
    /\ UNCHANGED <<accounts, ix, accounts_iter, token_accounts_user, token_accounts_swap_1,
                   token_accounts_swap_2, mints, i, j, scanned, placed, sw_in, sw_out>>

\* invoke(&ix_buy, buy.1)?
InvokeBuy ==
    /\ pc = "buy"
    /\ \E res \in InvokeResults :
         /\ invoked' = Append(invoked, [leg |-> "buy", ix |-> ix_buy, res |-> res])
         /\ IF res = Success
            THEN /\ effects' = Append(effects, "buy")
                 /\ pc' = "sell"
                 /\ UNCHANGED result
            ELSE Finish(res) /\ UNCHANGED effects
    /\ UNCHANGED <<accounts, ix, accounts_iter, token_accounts_user, token_accounts_swap_1,
                   token_accounts_swap_2, mints, i, j, scanned, placed, sw_in, sw_out>>

\* invoke_arbitrage with a compensating step when the sell leg fails
InvokeSellUnwinds ==
    /\ pc = "sell"
    /\ \E res \in InvokeResults :
         /\ invoked' = Append(invoked, [leg |-> "sell", ix |-> ix_sell, res |-> res])
         /\ effects' = IF res = Success THEN Append(effects, "sell") ELSE <<>>
         /\ Finish(res)
    /\ UNCHANGED <<accounts, ix, accounts_iter, token_accounts_user, token_accounts_swap_1,
                   token_accounts_swap_2, mints, i, j, scanned, placed, sw_in, sw_out>>

\* invoke(&ix_sell, sell.1)?; Ok(())
InvokeSell ==
    /\ pc = "sell"
    /\ \E res \in InvokeResults :
         /\ invoked' = Append(invoked, [leg |-> "sell", ix |-> ix_sell, res |-> res])
         /\ IF res = Success
            THEN effects' = Append(effects, "sell")
            ELSE UNCHANGED effects
         /\ Finish(res)
    /\ UNCHANGED <<accounts, ix, accounts_iter, token_accounts_user, token_accounts_swap_1,
                   token_accounts_swap_2, mints, i, j, scanned, placed, sw_in, sw_out>>

Next ==
    \/ ProcessStart
    \/ DecodeUser
    \/ DecodeSwap1
    \/ DecodeSwap2
    \/ DecodeMints
    \/ ScanOuter
    \/ ScanInner
    \/ InvokeBuy
    \/ InvokeSell

Spec == Init /\ [][Next]_vars

(***************************************************************************)
(* try_arbitrage called directly (it is a pub fn of a pub module): the     *)
(* four lists of TryArbitrageArgs are then whatever the caller built.      *)
(***************************************************************************)
NoFault == [kind |-> "none", pos |-> 0]

TryProfiles ==
    { [user |-> 100, swap_1 |-> 1000, swap_2 |-> 1000, decimals |-> 0],
      [user |-> 100, swap_1 |-> 1000, swap_2 |-> 500, decimals |-> 0] }

\* the decoded holdings of list `list` (0 user, 1 pool 1, 2 pool 2) for the first len assets
HoldingList(prof, list, len) ==
    [a \in 1..len |->
        TokenAccount_try_deserialize(
            ListedAccount(MaxAssets, prof, NoFault, list * MaxAssets + a),
            HolderKey(list)).val]

MintList(prof, len) ==
    [a \in 1..len |->
        Mint_try_deserialize(ListedAccount(MaxAssets, prof, NoFault, 3 * MaxAssets + a)).val]

InitTry ==
    /\ accounts = FixedAccounts(NoFault)
    /\ \E prof \in [1..MaxAssets -> TryProfiles] :
         \E lu \in 0..MaxAssets, l1 \in 0..MaxAssets, l2 \in 0..MaxAssets, lm \in 0..MaxAssets :
            /\ token_accounts_user = HoldingList(prof, 0, lu)
            /\ token_accounts_swap_1 = HoldingList(prof, 1, l1)
            /\ token_accounts_swap_2 = HoldingList(prof, 2, l2)
            /\ mints = MintList(prof, lm)
            /\ ix = [valid |-> TRUE,
                     swap_1_program_id |-> Key("swap_program", 1),
                     swap_2_program_id |-> Key("swap_program", 2),
                     concurrency |-> lm, temperature |-> 90]
    /\ pc = "scan_i"
    /\ accounts_iter = 0
    /\ i = 0
    /\ j = 0
    /\ scanned = <<>>
    /\ placed = <<>>
    /\ invoked = <<>>
    /\ effects = <<>>
    /\ result = Running
    /\ sw_in = NoCall
    /\ sw_out = Pending

NextTry ==
    \/ ScanOuter
    \/ ScanInner
    \/ InvokeBuy
    \/ InvokeSell

SpecTry == InitTry /\ [][NextTry]_vars

(***************************************************************************)
(* determine_swap_receive called on its own                                *)
(***************************************************************************)
MaxDecimals == 2

SwapReserves == {0, 1, 3, 13, 1000, 2^24 + 3}
SwapPays == {0, 1, 8, 9, 100, 2^24 + 1, 21598595}

InitSwap ==
    /\ sw_in \in [R : SwapReserves, dR : 0..MaxDecimals, P : SwapReserves,
                  dP : 0..MaxDecimals, p : SwapPays]
    /\ sw_out = Pending
    /\ pc = "swap"
    /\ accounts = <<>>
    /\ ix = [valid |-> TRUE,
             swap_1_program_id |-> Key("swap_program", 1),
             swap_2_program_id |-> Key("swap_program", 2),
             concurrency |-> 0, temperature |-> 0]
    /\ Idle

SwapCall ==
    /\ pc = "swap"
    /\ sw_out' = determine_swap_receive(sw_in.R, sw_in.dR, sw_in.P, sw_in.dP, sw_in.p)
    /\ pc' = "done"
    /\ UNCHANGED <<accounts, ix, accounts_iter, token_accounts_user, token_accounts_swap_1,
                   token_accounts_swap_2, mints, i, j, scanned, placed, invoked, effects,
                   result, sw_in>>

NextSwap == SwapCall

SpecSwap == InitSwap /\ [][NextSwap]_vars

(***************************************************************************)
(* build_ix_datas called directly                                          *)
(***************************************************************************)
IxAmounts == {0, 1, 255, 256, 1000, 65535, 16777217, 16909060, 2147483647}

InitIx ==
    /\ sw_in \in [buy_amount : IxAmounts, sell_amount : IxAmounts]
    /\ sw_out = Pending
    /\ pc = "ix_datas"
    /\ accounts = <<>>
    /\ ix = [valid |-> TRUE,
             swap_1_program_id |-> Key("swap_program", 1),
             swap_2_program_id |-> Key("swap_program", 2),
             concurrency |-> 0, temperature |-> 0]
    /\ Idle

IxDatasCall ==
    /\ pc = "ix_datas"
    /\ sw_out' = Ok(build_ix_datas(sw_in.buy_amount, sw_in.sell_amount))
    /\ pc' = "done"
    /\ UNCHANGED <<accounts, ix, accounts_iter, token_accounts_user, token_accounts_swap_1,
                   token_accounts_swap_2, mints, i, j, scanned, placed, invoked, effects,
                   result, sw_in>>

NextIx == IxDatasCall

SpecIx == InitIx /\ [][NextIx]_vars

(***************************************************************************)
(* Properties                                                              *)
(***************************************************************************)
\* the index pairs (a, b), a < b < n, in ascending lexicographic order
RECURSIVE PairsFrom(_, _, _)
PairsFrom(a, b, n) ==
    IF a >= n THEN <<>>
    ELSE IF b >= n THEN PairsFrom(a + 1, a + 2, n)
    ELSE <<<<a, b>>>> \o PairsFrom(a, b + 1, n)

LexPairs(n) == PairsFrom(0, 1, n)

IsTrade(outcome) == outcome \in {"Swap1", "Swap2"}

\* the pair qualifies as arbitrage: both quotes are computed, the pair is not
\* skipped, and check_for_arbitrage returns a direction
Qualifies(pr) == IsTrade(Evaluate(pr[1], pr[2], ix.temperature).outcome)

\* C1: the buy leg's call is issued strictly before the sell leg's, and the sell
\* leg's call is never issued when the buy leg's call failed: the invocation has
\* then ended with the buy leg's error.
C1_BuyThenSell ==
    /\ Len(invoked) <= 2
    /\ Len(invoked) >= 1 =>
          /\ Len(placed) = 1
          /\ invoked[1].leg = "buy"
          /\ invoked[1].ix.program_id = placed[1].buy.program_id
          /\ invoked[1].ix.accounts = Metas(placed[1].buy.accounts)
    /\ Len(invoked) = 2 =>
          /\ invoked[1].res = Success
          /\ invoked[2].leg = "sell"
          /\ invoked[2].ix.program_id = placed[1].sell.program_id
          /\ invoked[2].ix.accounts = Metas(placed[1].sell.accounts)
    /\ (Len(invoked) >= 1 /\ invoked[1].res # Success) =>
          /\ Len(invoked) = 1
          /\ pc = "done"
          /\ result = invoked[1].res

C1_Witness ==
    /\ pc = "done"
    /\ Len(invoked) = 1
    /\ invoked[1].res # Success

\* C2: the pairs are evaluated in ascending lexicographic order, the first pair
\* in that order that qualifies is the one traded, nothing is evaluated after
\* it, and an invocation places at most one trade.
C2_FirstQualifyingPairOnly ==
    /\ Len(placed) <= 1
    /\ Len(scanned) <= Len(LexPairs(mints_len))
    /\ \A k \in 1..Len(scanned) :
          /\ scanned[k].pair = LexPairs(mints_len)[k]
          /\ IsTrade(scanned[k].outcome) <=> (k = Len(scanned) /\ Len(placed) = 1)
    /\ Len(placed) = 1 =>
          /\ pc \in {"buy", "sell", "done"}
          /\ placed[1].pair = scanned[Len(scanned)].pair
          /\ placed[1].buy_on = scanned[Len(scanned)].outcome
    /\ pc = "buy" =>
          \A k \in 1..Len(scanned) :
              Qualifies(LexPairs(mints_len)[k]) <=> k = Len(scanned)

\* a trade on a pair that is not the first of the order, with a later pair
\* that qualifies too
C2_Witness ==
    /\ pc = "buy"
    /\ Len(scanned) >= 2
    /\ \E k \in (Len(scanned) + 1)..Len(LexPairs(mints_len)) :
          Qualifies(LexPairs(mints_len)[k])

\* process_arbitrage has decoded the four lists and called try_arbitrage
ScanReached ==
    \/ pc \in {"scan_i", "scan_j", "buy", "sell"}
    \/ /\ pc = "done"
       /\ accounts_iter = 8 + 4 * ix.concurrency
       /\ Len(mints) = ix.concurrency

PairSet == {pr \in (0..(mints_len - 1)) \X (0..(mints_len - 1)) : pr[1] < pr[2]}

NoOpportunity == result = Custom(NoArbitrage) /\ invoked = <<>>

\* both quotes are computed and percentDiff > threshold
Exceeds(q1, q2, temperature) ==
    /\ q1.ok
    /\ q2.ok
    /\ ExceedsThreshold(percent_diff(q1.val, q2.val), temperature)

PairExceeds(pr) == Exceeds(Quote1(pr[1], pr[2]), Quote2(pr[1], pr[2]), ix.temperature)

\* both quotes are computed, and the pair is skipped or within the threshold
Passes(b, q1, q2, temperature) ==
    /\ q1.ok
    /\ q2.ok
    /\ \/ Skipped(b, q1.val, q2.val)
       \/ ~ExceedsThreshold(percent_diff(q1.val, q2.val), temperature)

PairPasses(pr) == Passes(pr[2], Quote1(pr[1], pr[2]), Quote2(pr[1], pr[2]), ix.temperature)

\* neither quote of the pair is a swap-math error
Quoted(q1, q2) == q1.ok /\ q2.ok

PairQuoted(pr) == Quoted(Quote1(pr[1], pr[2]), Quote2(pr[1], pr[2]))

\* C3, as stated: when every quote can be computed, the scan ends with
\* NoArbitrage and no external call if and only if no pair (i, j), i < j, has
\* percentDiff > threshold.
C3_NoneIffNoPairExceeds ==
    (pc = "done" /\ ScanReached /\ \A pr \in PairSet : PairQuoted(pr)) =>
        (NoOpportunity <=> \A pr \in PairSet : ~PairExceeds(pr))

\* C3, amended: the scan ends with NoArbitrage and no external call if and only
\* if every pair (i, j), i < j, has both quotes computed without a swap-math
\* error and is either skipped (a quote is zero or above the pool's reserve of
\* asset j) or has percentDiff <= threshold.
C3_NoneIffEveryPairPasses ==
    (pc = "done" /\ ScanReached) =>
        (NoOpportunity <=> \A pr \in PairSet : PairPasses(pr))

\* the scan ended with NoArbitrage over a skipped pair whose percentDiff is
\* above the threshold
C3_Witness ==
    /\ pc = "done"
    /\ ScanReached
    /\ NoOpportunity
    /\ \E k \in 1..Len(scanned) :
          /\ scanned[k].outcome = "skip"
          /\ ExceedsThreshold(percent_diff(scanned[k].r1, scanned[k].r2), ix.temperature)

\* C4, as stated: whenever a pair qualifies the direction is buy on pool 1,
\* sell on pool 2; Buy::Swap2 is never taken, for every temperature byte.
C4_NeverSwap2 ==
    /\ \A k \in 1..Len(scanned) : scanned[k].outcome # "Swap2"
    /\ \A k \in 1..Len(placed) : placed[k].buy_on = "Swap1"

\* C4, amended: for a temperature of at most 100 a qualifying pair is always
\* traded buy on pool 1, sell on pool 2, whichever quote is larger; Buy::Swap2
\* is taken exactly when the temperature is above 100 (negative threshold) and
\* the computed percent difference is zero.
C4_Swap2OnlyOnZeroDiff ==
    /\ \A k \in 1..Len(scanned) :
          IsTrade(scanned[k].outcome) =>
              (scanned[k].outcome = "Swap2" <=>
                  /\ ix.temperature > 100
                  /\ IsZero(percent_diff(scanned[k].r1, scanned[k].r2)))
    /\ \A k \in 1..Len(placed) : placed[k].buy_on = scanned[Len(scanned)].outcome

\* a trade buying on pool 1 although pool 1 quotes less than pool 2
C4_Witness ==
    /\ Len(placed) = 1
    /\ placed[1].buy_on = "Swap1"
    /\ ix.temperature <= 100
    /\ scanned[Len(scanned)].r1 < scanned[Len(scanned)].r2

\* C5: whenever a pair's percent difference exceeds the threshold, the pool
\* with the higher quote is the buy leg and the other pool the sell leg.
C5_BuyOnHigherQuote ==
    \A k \in 1..Len(placed) :
        LET s == scanned[Len(scanned)]
        IN  /\ s.r1 > s.r2 =>
                 /\ placed[k].buy.program_id = swap_1_program.key
                 /\ placed[k].sell.program_id = swap_2_program.key
            /\ s.r2 > s.r1 =>
                 /\ placed[k].buy.program_id = swap_2_program.key
                 /\ placed[k].sell.program_id = swap_1_program.key

\* the four sequences handed to try_arbitrage do not all have the same length
LengthsDiffer ==
    \/ Len(token_accounts_user) # Len(mints)
    \/ Len(token_accounts_swap_1) # Len(mints)
    \/ Len(token_accounts_swap_2) # Len(mints)

\* C6: if the four per-asset sequences passed to try_arbitrage do not all have
\* the same length, the invocation ends with InvalidAccountsList before any
\* swap-output computation and before any external call.
C6_MismatchRejectedFirst ==
    LengthsDiffer =>
        /\ scanned = <<>>
        /\ invoked = <<>>
        /\ pc = "done" => result = Custom(InvalidAccountsList)

\* the holder the k-th listed account must belong to: the payer for the first
\* n, pool 1 for the next n, pool 2 for the third n
ExpectedOwner(k) ==
    IF k <= ix.concurrency THEN accounts[1].key
    ELSE IF k <= 2 * ix.concurrency THEN accounts[7].key
    ELSE accounts[8].key

IsHolding(k) == k \in 1..(3 * ix.concurrency)
IsDefinition(k) == k \in (3 * ix.concurrency + 1)..(4 * ix.concurrency)

\* the instruction and the eight fixed accounts pass the checks that precede
\* the decoding loops
FixedOk ==
    /\ ix.valid
    /\ Len(accounts) >= 8
    /\ accounts[7].key = PoolAddress(ix.swap_1_program_id)
    /\ accounts[8].key = PoolAddress(ix.swap_2_program_id)

WrongOwner(k) ==
    /\ IsHolding(k)
    /\ 8 + k <= Len(accounts)
    /\ accounts[8 + k].data_len >= 72
    /\ accounts[8 + k].aligned
    /\ accounts[8 + k].owner # ExpectedOwner(k)

\* the k-th listed account is present and cannot be decoded
Undecodable(k) ==
    /\ 8 + k <= Len(accounts)
    /\ \/ IsHolding(k) /\ accounts[8 + k].data_len < 72
       \/ IsHolding(k) /\ accounts[8 + k].owner # ExpectedOwner(k)
       \/ IsDefinition(k) /\ accounts[8 + k].data_len < 41
       \/ ~accounts[8 + k].aligned

FirstUndecodable(k) ==
    /\ FixedOk
    /\ Undecodable(k)
    /\ \A m \in 1..(k - 1) : ~Undecodable(m)

\* C7: decoding a holding of at least 72 bytes whose owner field differs from
\* the expected owner fails with the owner-mismatch error kind
\* (TokenAccountOwnerNotFound), distinct from InvalidAccountsList.
C7_OwnerMismatchKind ==
    \A k \in 1..(3 * ix.concurrency) :
        (pc = "done" /\ FirstUndecodable(k) /\ WrongOwner(k)) =>
            result = Custom(TokenAccountOwnerNotFound)

\* C8: a decode failure (short holding, holding with the wrong owner, short
\* definition) or a swap-math error ends the invocation at once with that
\* error and no external call; an external call is issued only after all 3n
\* holdings and n definitions have been decoded.
C8_ErrorsAbortBeforeCalls ==
    /\ \A k \in 1..(4 * ix.concurrency) :
          FirstUndecodable(k) =>
              /\ invoked = <<>>
              /\ scanned = <<>>
              /\ accounts_iter <= 8 + k
              /\ pc \in {"start", "decode_user", "decode_swap_1", "decode_swap_2",
                         "decode_mints", "done"}
              /\ pc = "done" =>
                    /\ result = Custom(InvalidAccountsList)
                    /\ accounts_iter = 8 + k
    /\ \A m \in 1..Len(scanned) :
          scanned[m].outcome = "error" =>
              /\ m = Len(scanned)
              /\ pc = "done"
              /\ result = Custom(InvalidSwapNotEnoughLiquidity)
              /\ invoked = <<>>
    /\ invoked # <<>> =>
          /\ Len(accounts) = 8 + 4 * ix.concurrency
          /\ \A k \in 1..(4 * ix.concurrency) : ~Undecodable(k)
          /\ Len(token_accounts_user) = ix.concurrency
          /\ Len(token_accounts_swap_1) = ix.concurrency
          /\ Len(token_accounts_swap_2) = ix.concurrency
          /\ Len(mints) = ix.concurrency
          /\ \A m \in 1..Len(scanned) : scanned[m].outcome # "error"

\* a holding of pool 2 with the wrong owner ended the invocation after the
\* user's and pool 1's holdings had been decoded
C8_Witness ==
    /\ pc = "done"
    /\ invoked = <<>>
    /\ token_accounts_swap_1 # <<>>
    /\ \E k \in (2 * ix.concurrency + 1)..(3 * ix.concurrency) :
          /\ FirstUndecodable(k)
          /\ WrongOwner(k)
          /\ accounts_iter = 8 + k

\* each leg is issued at most once
C9_NoRetry ==
    /\ Len(invoked) <= 2
    /\ \A a \in 1..Len(invoked) : \A b \in 1..Len(invoked) :
          a # b => invoked[a].leg # invoked[b].leg

\* a failed call's error is the invocation's result, unchanged
C9_ErrorUnchanged ==
    \A a \in 1..Len(invoked) :
        invoked[a].res # Success =>
            /\ a = Len(invoked)
            /\ pc = "done"
            /\ result = invoked[a].res

\* the sell leg failing after the buy leg succeeded leaves the buy applied
C9_NoUnwind ==
    (Len(invoked) = 2 /\ invoked[2].res # Success) =>
        /\ pc = "done"
        /\ result # Success
        /\ effects = <<"buy">>

\* C9, as stated: each leg is issued at most once, a successful scan issues
\* exactly two external calls, a failed call's error is returned unchanged, and
\* a sell failure after a successful buy leaves the buy leg's effect applied.
C9_ExactlyTwoCalls ==
    /\ C9_NoRetry
    /\ (pc = "done" /\ placed # <<>>) => Len(invoked) = 2
    /\ C9_ErrorUnchanged
    /\ C9_NoUnwind

\* C9, amended: each leg is issued at most once; a successful scan issues
\* exactly two external calls when the buy leg's call succeeds and exactly one
\* when it fails; a failed call's error is returned unchanged, and a sell
\* failure after a successful buy leaves the buy leg's effect applied.
C9_TwoCallsUnlessBuyFails ==
    /\ C9_NoRetry
    /\ (pc = "done" /\ placed # <<>>) =>
          /\ invoked # <<>>
          /\ Len(invoked) = (IF invoked[1].res = Success THEN 2 ELSE 1)
    /\ C9_ErrorUnchanged
    /\ C9_NoUnwind

\* the sell leg failed after the buy leg succeeded
C9_Witness ==
    /\ pc = "done"
    /\ Len(invoked) = 2
    /\ invoked[1].res = Success
    /\ invoked[2].res # Success
    /\ result = invoked[2].res
    /\ effects = <<"buy">>

\* C10: a successful result of determine_swap_receive(R, dR, P, dP, p) is
\* never greater than the receive pool's reserve R.
C10_LiquidityBound ==
    (pc = "done" /\ sw_out.ok) => sw_out.val <= sw_in.R

\* the second of two successful quotes is not below the first
NotBelow(o1, o2) == (o1.ok /\ o2.ok) => o1.val <= o2.val

QuoteFor(pay_amount) ==
    determine_swap_receive(sw_in.R, sw_in.dR, sw_in.P, sw_in.dP, pay_amount)

\* C11: determine_swap_receive(R, dR, P, dP, p) is monotonically increasing in
\* p for fixed R, dR, P, dP (p1 <= p2 implies result(p1) <= result(p2)), and
\* returns 0 when p = 0, including when the pay pool's reserve P is 0 too.
C11_MonotoneInPay ==
    pc = "done" =>
        /\ sw_in.p = 0 => (sw_out.ok /\ sw_out.val = 0)
        /\ \A p2 \in SwapPays : sw_in.p <= p2 => NotBelow(sw_out, QuoteFor(p2))

\* C12: in whichever direction is chosen, the buy leg's amount is the user's
\* holding of the pay asset i, and the sell leg's amount is the receive amount
\* quoted on the buy pool (r1 when buying on pool 1, r2 when buying on pool 2).
C12_LegAmounts ==
    \A k \in 1..Len(placed) :
        /\ placed[k].buy.amount = token_accounts_user[placed[k].pair[1] + 1].amount
        /\ placed[k].sell.amount =
              (IF placed[k].buy_on = "Swap1" THEN scanned[Len(scanned)].r1
               ELSE scanned[Len(scanned)].r2)

\* the natural number a sequence of bytes encodes, most significant byte first
RECURSIVE FromBE(_)
FromBE(bytes) ==
    IF bytes = <<>> THEN <<>>
    ELSE BNAdd(BNMulLimb(FromBE(SubSeq(bytes, 1, Len(bytes) - 1)), 256),
               BNFromInt(bytes[Len(bytes)]))

\* a 16-byte payload: the swap discriminator, then the amount big-endian
IsPayload(data, amount) ==
    /\ Len(data) = 16
    /\ \A k \in 1..16 : data[k] \in 0..255
    /\ SubSeq(data, 1, 8) = swap_ix_hash
    /\ FromBE(SubSeq(data, 9, 16)) = BNFromInt(amount)

\* C13: each leg's payload built by build_ix_datas is exactly 16 bytes: bytes
\* 0..8 are the same 8-byte swap discriminator in both legs, bytes 8..16 are
\* the leg's amount as a big-endian unsigned 64-bit integer, and decoding them
\* big-endian returns the leg's amount.
C13_PayloadLayout ==
    pc = "done" =>
        /\ Len(sw_out.val) = 2
        /\ IsPayload(sw_out.val[1], sw_in.buy_amount)
        /\ IsPayload(sw_out.val[2], sw_in.sell_amount)
        /\ SubSeq(sw_out.val[1], 1, 8) = SubSeq(sw_out.val[2], 1, 8)

\* payloads for two different amounts, one of them with four distinct
\* non-zero bytes (0x01020304)
C13_Witness ==
    /\ pc = "done"
    /\ sw_in.buy_amount = 16909060
    /\ sw_in.sell_amount = 1000
    /\ SubSeq(sw_out.val[1], 9, 16) = <<0, 0, 0, 0, 1, 2, 3, 4>>
    /\ SubSeq(sw_out.val[2], 9, 16) = <<0, 0, 0, 0, 0, 0, 3, 232>>

\* the accounts of asset x (from 0) among the accounts received: the user's
\* holding, the holding of pool k (1 or 2), the definition
UserHolding(x) == accounts[8 + x + 1]
PoolHolding(k, x) == accounts[8 + k * ix.concurrency + x + 1]
Definition(x) == accounts[8 + 3 * ix.concurrency + x + 1]

\* the eleven accounts of a leg on pool k receiving asset recv and paying pay
LegAccounts(k, recv, pay) ==
    << accounts[6 + k], Definition(recv), PoolHolding(k, recv), UserHolding(recv),
       Definition(pay), PoolHolding(k, pay), UserHolding(pay),
       accounts[1], accounts[2], accounts[3], accounts[4] >>

\* the leg is addressed to the program of pool k and carries the eleven
\* accounts in order; pool k's holdings in it are owned by pool k
IsLegOn(leg, k, recv, pay) ==
    /\ leg.program_id = accounts[4 + k].key
    /\ Len(leg.accounts) = 11
    /\ leg.accounts = LegAccounts(k, recv, pay)
    /\ leg.accounts[3].owner = leg.accounts[1].key
    /\ leg.accounts[6].owner = leg.accounts[1].key

\* the call carries the references of the leg's accounts, in the same order
RefersTo(call, leg) ==
    /\ call.ix.program_id = leg.program_id
    /\ Len(call.ix.accounts) = 11
    /\ \A k \in 1..11 :
          /\ call.ix.accounts[k].pubkey = leg.accounts[k].key
          /\ call.ix.accounts[k].is_signer = leg.accounts[k].is_signer
          /\ call.ix.accounts[k].is_writable = leg.accounts[k].is_writable

BuyPool(t) == IF t.buy_on = "Swap1" THEN 1 ELSE 2

\* C14: each emitted leg carries exactly 11 account references in the fixed
\* order pool, receive definition, pool's receive holding, user's receive
\* holding, pay definition, pool's pay holding, user's pay holding, payer,
\* token program, system program, associated token program; the pool and its
\* holdings in a leg belong to the leg's target pool; the buy leg pays i and
\* receives j, the sell leg pays j and receives i.
C14_LegAccountOrder ==
    /\ \A k \in 1..Len(placed) :
          /\ IsLegOn(placed[k].buy, BuyPool(placed[k]), placed[k].pair[2], placed[k].pair[1])
          /\ IsLegOn(placed[k].sell, 3 - BuyPool(placed[k]), placed[k].pair[1], placed[k].pair[2])
    /\ \A k \in 1..Len(invoked) :
          RefersTo(invoked[k], IF invoked[k].leg = "buy" THEN placed[1].buy ELSE placed[1].sell)

\* both legs were issued for a trade buying on pool 2 on the pair (0, 2)
C14_Witness ==
    /\ Len(invoked) = 2
    /\ Len(placed) = 1
    /\ placed[1].buy_on = "Swap2"
    /\ placed[1].pair = <<0, 2>>

\* a computed quote that is zero or above the pool's reserve of asset b
Unusable(q, reserve) == q.ok /\ (q.val = 0 \/ q.val > reserve)

\* pool 1's quote is computed and unusable, or pool 2's quote is reached (pool
\* 1's quote did not fail) and is computed and unusable
AnyUnusable(b, q1, q2) ==
    /\ q1.ok
    /\ \/ Unusable(q1, token_accounts_swap_1[b + 1].amount)
       \/ Unusable(q2, token_accounts_swap_2[b + 1].amount)

PairAnyUnusable(pr) == AnyUnusable(pr[2], Quote1(pr[1], pr[2]), Quote2(pr[1], pr[2]))

\* the m-th evaluated pair was skipped: no error, no trade on it, no call for
\* it, and the scan went on with the next pair in order or ended, all pairs
\* exhausted, with NoArbitrage
SkippedAndContinued(m) ==
    /\ scanned[m].outcome = "skip"
    /\ \A k \in 1..Len(placed) : placed[k].pair # scanned[m].pair
    /\ m < Len(scanned) => scanned[m + 1].pair = LexPairs(mints_len)[m + 1]
    /\ m = Len(scanned) =>
          /\ invoked = <<>>
          /\ pc \in {"scan_i", "scan_j", "done"}
          /\ pc = "done" =>
                /\ result = Custom(NoArbitrage)
                /\ m = Len(LexPairs(mints_len))

\* C15, as stated: a pair for which either pool's quote is zero or exceeds
\* that pool's reserve of the receive asset j is skipped without an error and
\* without an external call, the scan continues with the next pair in order,
\* and such a pair is never the one acted upon.
C15_UnusableQuoteSkipped ==
    \A m \in 1..Len(scanned) :
        PairAnyUnusable(scanned[m].pair) => SkippedAndContinued(m)

\* C16: for all non-negative integer inputs with P + p > 0,
\* determine_swap_receive never returns InvalidSwapNotEnoughLiquidity (the
\* guard r > R cannot fire), so that a scan is never aborted by a swap-math
\* error.
C16_NeverNotEnoughLiquidity ==
    (pc = "done" /\ sw_in.P + sw_in.p > 0) =>
        sw_out # Err(Custom(InvalidSwapNotEnoughLiquidity))
====
